---------------------------- MODULE Spec2Model ----------------------------
(***************************************************************************)
(* Step-Detection: the accelerometer step counters of the repository.      *)
(*                                                                         *)
(*   StepScreen  (src/unnamed/part_000)       adaptive peak-valley-peak    *)
(*   RideScreen  (src/app/(tabs)/RideScreen)  hysteresis detector          *)
(*   GraphsScreen (src/app/(tabs)/GraphsScreen) buffer of recent samples   *)
(*                                                                         *)
(* Numbers.  The code computes in IEEE-754 doubles.  The model computes in *)
(* fixed point: an acceleration a is the integer 1000*a (0.03 is 30, 9.8   *)
(* is 9800), a filter coefficient c is the integer 100*c (0.9 is 90), and  *)
(* the result of a filter expression c*a + (1-c)*b or of a product c*a is  *)
(* rounded to the nearest fixed-point value, as the double result is       *)
(* rounded to the nearest double.  NaN is a value of its own: arithmetic   *)
(* on it yields NaN and every ordering comparison with it is false, as in  *)
(* JavaScript.                                                             *)
(*                                                                         *)
(* Time.  Date.now() is the variable now, in milliseconds.  It advances    *)
(* between two sensor callbacks.  The epoch clock is far above             *)
(* MAX_STEP_PERIOD when the screen starts; the model starts it at          *)
(* StartTime, which is above MAX_STEP_PERIOD as well.                      *)
(***************************************************************************)
EXTENDS Integers, Sequences, FiniteSets, TLC

(* ------------------------------ bounds -------------------------------- *)

\* Span of a run of the general specifications, in clock ticks of TickMs.
MaxTicks == 8

\* Number of start times of the end-to-end scenario.
MaxStarts == 6

\* Samples of arbitrary input before the input is held constant.
WarmTicks == 3

\* Span of a run with constant input, in sensor update intervals.
ConstTicks == 80

\* Span of a run of RideScreen, in clock ticks of RideTickMs.
RideTicks == 9

\* Span of a run with focus changes, in clock ticks of TickMs.
FocusTicks == 5

\* Span of a run of walking readings, in clock ticks of TickMs.
WalkTicks == 10

\* Samples of arbitrary input to GraphsScreen, before the device rests.
GraphWarm == 3

\* Samples delivered to GraphsScreen in a run.
GraphTicks == 123

(* --------------------------- fixed point ------------------------------ *)

\* The coefficient 1.0 (the literal 1 of "1 - ALPHA_GRAVITY").
Percent == 100

\* IEEE-754 NaN, a value outside the range of every finite value used.
NaN == -1000000000

\* a / b rounded to the nearest integer (b > 0).
RoundDiv(a, b) == (2 * a + b) \div (2 * b)

\* coefficient * value, c in hundredths.
FMul(c, a) == IF a = NaN THEN NaN ELSE RoundDiv(c * a, Percent)

\* c * a + (1 - c) * b, the first-order low-pass filter, c in hundredths.
Blend(c, a, b) ==
    IF a = NaN \/ b = NaN THEN NaN
    ELSE RoundDiv(c * a + (Percent - c) * b, Percent)

FAdd(a, b) == IF a = NaN \/ b = NaN THEN NaN ELSE a + b

FSub(a, b) == IF a = NaN \/ b = NaN THEN NaN ELSE a - b

FNeg(a) == IF a = NaN THEN NaN ELSE 0 - a

\* a + a, exact.
FTwice(a) == IF a = NaN THEN NaN ELSE 2 * a

\* Math.abs
Abs(a) == IF a = NaN THEN NaN ELSE IF a < 0 THEN 0 - a ELSE a

\* Math.max: NaN if either argument is NaN.
Max(a, b) == IF a = NaN \/ b = NaN THEN NaN ELSE IF a > b THEN a ELSE b

\* a < b on doubles: false when either side is NaN.
Lt(a, b) == a # NaN /\ b # NaN /\ a < b

\* a > b on doubles.
Gt(a, b) == a # NaN /\ b # NaN /\ a > b

RECURSIVE SqrtSearch(_, _, _)
\* The largest r in lo..hi with r*r <= n.
SqrtSearch(n, lo, hi) ==
    IF lo >= hi THEN lo
    ELSE LET mid == (lo + hi + 1) \div 2
         IN  IF mid * mid <= n THEN SqrtSearch(n, mid, hi)
                               ELSE SqrtSearch(n, lo, mid - 1)

\* Math.sqrt, rounded to the nearest fixed-point value.
Sqrt(n) ==
    IF n = NaN THEN NaN
    ELSE LET r == SqrtSearch(n, 0, 46000)
         IN  IF n - r * r > r THEN r + 1 ELSE r

\* x * x on doubles.
Square(a) == IF a = NaN THEN NaN ELSE a * a

\* Math.sqrt(x * x + y * y + z * z)
Magnitude(s) == Sqrt(FAdd(FAdd(Square(s[1]), Square(s[2])), Square(s[3])))

(* ------------------------ StepScreen parameters ----------------------- *)

ALPHA_GRAVITY == 90

MIN_STEP_PERIOD == 500

MAX_STEP_PERIOD == 1000

MIN_ACTIVITY_LEVEL == 30

ENERGY_ALPHA == 95

MIN_PEAK_THRESHOLD == 200

THRESHOLD_GAIN == 150

\* Accelerometer.setUpdateInterval(50), in ms.
UpdateInterval == 50

(* ------------------------ RideScreen parameters ----------------------- *)

ALPHA_STEP == 75

DEAD_ZONE == 80

STEP_THRESHOLD_HIGH == 60

STEP_THRESHOLD_LOW == 120

MIN_STEP_INTERVAL == 350

(* ----------------------- GraphsScreen parameters ---------------------- *)

ALPHA == 90

BUFFER_SIZE == 120

(* ------------------------------ inputs -------------------------------- *)

\* Accelerometer readings {x, y, z}: free fall, two levels of rest in
\* different orientations, a strong push, and a reading with a NaN axis.
Samples == { <<0, 0, 0>>, <<0, 0, 300>>, <<0, 1000, 0>>,
             <<1800, 2400, 0>>, <<NaN, 0, 0>> }

\* One clock tick of the general specifications, in ms.
TickMs == MIN_STEP_PERIOD \div 2

\* Time between two sensor callbacks, in ms.
Deltas == { TickMs, 2 * TickMs }

\* Date.now() when the screen starts.
StartTime == 2 * MAX_STEP_PERIOD

MaxTime == StartTime + MaxTicks * TickMs

\* The readings of Samples without a NaN axis.
FiniteSamples == { s \in Samples : s[1] # NaN /\ s[2] # NaN /\ s[3] # NaN }

\* The magnitude stream of the end-to-end scenario: ten samples 9.8, then
\* 9.8, 10.3, 9.5, 9.1, 9.9, 10.4, 9.4.
ScenarioStream ==
    << 9800, 9800, 9800, 9800, 9800, 9800, 9800, 9800, 9800, 9800,
       9800, 10300, 9500, 9100, 9900, 10400, 9400 >>

\* A reading of magnitude m, the device lying flat.
Flat(m) == <<0, 0, m>>

ScenarioSamples == { Flat(ScenarioStream[i]) : i \in 1..Len(ScenarioStream) }

\* Date.now() when the scenario starts.
ScenarioStarts == { StartTime + k * UpdateInterval : k \in 0..(MaxStarts - 1) }

\* Readings delivered to RideScreen: free fall, rest, and a push.
RideSamples == { <<0, 0, 0>>, <<0, 1000, 0>>, <<1200, 0, 1600>> }

\* One clock tick of the RideScreen specification, in ms: the update
\* interval of the sensor.
RideTickMs == UpdateInterval

\* Time between two sensor callbacks of RideScreen, in ms: the update
\* interval, or a delayed callback.
RideDeltas == { RideTickMs, MIN_STEP_INTERVAL }

RideMaxTime == StartTime + RideTicks * RideTickMs

\* Readings of a walk: free fall, rest, and a strong push.
WalkSamples == { <<0, 0, 0>>, <<0, 1000, 0>>, <<1800, 2400, 0>> }

\* The device at rest, lying flat.
RestSample == <<0, 0, 1000>>

\* Readings delivered to GraphsScreen: rest, and a push.
GraphSamples == { RestSample, <<1200, 0, 1600>> }

\* Magnitude, tabulated once over the readings the specifications deliver.
MagnitudeOf ==
    [s \in Samples \cup ScenarioSamples \cup RideSamples \cup WalkSamples
            \cup GraphSamples |-> Magnitude(s)]

(* ------------------------------- state -------------------------------- *)

VARIABLES
    now,              \* Date.now()
    \* StepScreen
    stepCount,        \* useState(0)
    dynValue,         \* useState(0), set by setDynValue
    gravityMagRef,    \* useRef(0)
    prevDynRef,       \* useRef(0)
    prevPrevDynRef,   \* useRef(0)
    lastPeakTimeRef,  \* useRef(0)
    pendingPeakRef,   \* useRef(false)
    lastWasValleyRef, \* useRef(false)
    energyRef,        \* useRef(0)
    magRaw,           \* the local magRaw of the last processSample call
    \* history of the StepScreen detector, read by the properties only
    peaksDetected,    \* number of samples on which isPeak held
    valleySincePeak,  \* isValley held on a sample after the last isPeak one
    oscillations,     \* peaks that completed a peak-valley-peak in the window
    lastStepTime,     \* Date.now() of the last confirmed step, 0 if none
    peaksSinceStep,   \* peaks detected after the last confirmed step
    subscribed,       \* the listener of useFocusEffect is registered
    fed,              \* samples of ScenarioStream delivered so far
    \* RideScreen
    rideStepCount,      \* useState(0): stepCount
    gravity,            \* useState(0)
    stepSignal,         \* useState(0), set to the gated signal
    gravityRef,         \* useRef(0)
    stepSignalRef,      \* useRef(0)
    lastStepTimeRef,    \* useRef(0)
    aboveThresholdRef,  \* useRef(false)
    \* history of the RideScreen detector, read by the properties only
    lowSinceStep,       \* the gated signal was below both thresholds on a
                        \* sample after the last counted step
    \* GraphsScreen
    mode,               \* useState("raw")
    samples,            \* useState([]): the buffer of AccSample
    gravityAxisRef,     \* useRef({x: 0, y: 0, z: 0})
    graphGravityMagRef, \* useRef(0): gravityMagRef
    \* history of GraphsScreen, read by the properties only
    arrived             \* every AccSample built so far, in arrival order

stepVars == <<stepCount, dynValue, gravityMagRef, prevDynRef, prevPrevDynRef,
              lastPeakTimeRef, pendingPeakRef, lastWasValleyRef, energyRef,
              magRaw>>

histVars == <<peaksDetected, valleySincePeak, oscillations, lastStepTime,
              peaksSinceStep>>

graphVars == <<mode, samples, gravityAxisRef, graphGravityMagRef, arrived>>

rideVars == <<rideStepCount, gravity, stepSignal, gravityRef, stepSignalRef,
              lastStepTimeRef, aboveThresholdRef, lowSinceStep>>

vars == <<now, stepVars, histVars, fed, subscribed, rideVars, graphVars>>

\* The detector's refs and the step count, as one record.
Detector ==
    [ energyRef        |-> energyRef,
      prevDynRef       |-> prevDynRef,
      prevPrevDynRef   |-> prevPrevDynRef,
      lastPeakTimeRef  |-> lastPeakTimeRef,
      pendingPeakRef   |-> pendingPeakRef,
      lastWasValleyRef |-> lastWasValleyRef,
      stepCount        |-> stepCount ]

(* ---------------------- StepScreen: processSample --------------------- *)

\* Faulty variant: the two weights of the gravity filter are swapped.
GravityLPFSwapped(g, mag) == Blend(Percent - ALPHA_GRAVITY, g, mag)

\* gravityMagRef.current after the gravity low-pass filter.
GravityLPF(g, mag) == Blend(ALPHA_GRAVITY, g, mag)

\* const dyn = magRaw - gravityMagRef.current
Dynamic(mag, g) == FSub(mag, g)

(* ----------------------- StepScreen: detectStep ----------------------- *)

\* Faulty variant: the comparison of the gate is inverted.
GatedInverted(dyn) == Gt(Abs(dyn), MIN_ACTIVITY_LEVEL)

\* Faulty variant: the gate compares the signed value, Math.abs is missing.
GatedSigned(dyn) == Lt(dyn, MIN_ACTIVITY_LEVEL)

\* The noise / activity gate: the sample is ignored.
Gated(dyn) == Lt(Abs(dyn), MIN_ACTIVITY_LEVEL)

\* energyRef.current after the adaptive threshold update.
EnergyLPF(e, dyn) == Blend(ENERGY_ALPHA, e, Abs(dyn))

\* Faulty variant: a fixed threshold, the energy estimate is not used.
AdaptiveThresholdFixed(e) == Max(MIN_PEAK_THRESHOLD, MIN_PEAK_THRESHOLD)

\* Faulty variant: the threshold is not clamped to the floor.
AdaptiveThresholdNoFloor(e) == FMul(THRESHOLD_GAIN, e)

\* const adaptiveThreshold
AdaptiveThreshold(e) == Max(MIN_PEAK_THRESHOLD, FMul(THRESHOLD_GAIN, e))

\* const isValley; prev < -thr / 2 is compared as 2 * prev < -thr.
IsValley(prev, prevPrev, dyn, thr) ==
    /\ Lt(prev, prevPrev)
    /\ Lt(prev, dyn)
    /\ Lt(FTwice(prev), FNeg(thr))

\* const isPeak
IsPeak(prev, prevPrev, dyn, thr) ==
    /\ Gt(prev, prevPrev)
    /\ Gt(prev, dyn)
    /\ Gt(prev, thr)

\* Faulty variant: the lower limit of the window is accepted.
InWindowInclusive(dt) == dt >= MIN_STEP_PERIOD /\ dt < MAX_STEP_PERIOD

\* Faulty variant: the two limits of the window are swapped.
InWindowSwapped(dt) == dt > MAX_STEP_PERIOD /\ dt < MIN_STEP_PERIOD

\* dt > MIN_STEP_PERIOD && dt < MAX_STEP_PERIOD
InWindow(dt) == dt > MIN_STEP_PERIOD /\ dt < MAX_STEP_PERIOD

\* The condition of the "Confirmed step" branch.
Confirmed(pending, valley, dt) == pending /\ valley /\ InWindow(dt)

\* Faulty variant: the pending flag is not cleared by a confirmed step.
PendingKept(confirmed) == TRUE

\* pendingPeakRef.current after a peak.
PendingAfterPeak(confirmed) == ~confirmed

\* Faulty variant: the valley flag is not cleared by a confirmed step.
ValleyKept(confirmed, v) == v

\* lastWasValleyRef.current after a peak; v is its value before the peak.
ValleyAfterPeak(confirmed, v) == IF confirmed THEN FALSE ELSE v

\* Faulty variant: the peak time is recorded in the "Confirmed step" branch only.
LastPeakTimeOnConfirm(confirmed, t, old) == IF confirmed THEN t ELSE old

\* lastPeakTimeRef.current after a peak at time t; old is its value before.
LastPeakTimeAfterPeak(confirmed, t, old) == t

\* detectStep(dyn) called at Date.now() = t on the detector d.
detectStep(d, dyn, t) ==
    IF Gated(dyn) THEN d
    ELSE
      LET e      == EnergyLPF(d.energyRef, dyn)
          thr    == AdaptiveThreshold(e)
          valley == IsValley(d.prevDynRef, d.prevPrevDynRef, dyn, thr)
          v      == d.lastWasValleyRef \/ valley
          peak   == IsPeak(d.prevDynRef, d.prevPrevDynRef, dyn, thr)
          dt     == t - d.lastPeakTimeRef
          conf   == Confirmed(d.pendingPeakRef, v, dt)
      IN  [ energyRef        |-> e,
            prevDynRef       |-> dyn,
            prevPrevDynRef   |-> d.prevDynRef,
            lastPeakTimeRef  |-> IF peak THEN LastPeakTimeAfterPeak(conf, t,
                                                   d.lastPeakTimeRef)
                                         ELSE d.lastPeakTimeRef,
            pendingPeakRef   |-> IF peak THEN PendingAfterPeak(conf)
                                         ELSE d.pendingPeakRef,
            lastWasValleyRef |-> IF peak THEN ValleyAfterPeak(conf, v) ELSE v,
            stepCount        |-> IF peak /\ conf THEN d.stepCount + 1
                                                 ELSE d.stepCount ]

(* ------------------------ history of a sample ------------------------- *)

\* isPeak of the detectStep call with input dyn on detector d.
PeakOn(d, dyn) ==
    /\ ~Gated(dyn)
    /\ IsPeak(d.prevDynRef, d.prevPrevDynRef, dyn,
              AdaptiveThreshold(EnergyLPF(d.energyRef, dyn)))

\* isValley of the detectStep call with input dyn on detector d.
ValleyOn(d, dyn) ==
    /\ ~Gated(dyn)
    /\ IsValley(d.prevDynRef, d.prevPrevDynRef, dyn,
                AdaptiveThreshold(EnergyLPF(d.energyRef, dyn)))

\* The inter-peak spacing lies strictly inside the 500-1000 ms window.
SpacingInside(dt) == 500 < dt /\ dt < 1000

History(d, dyn, t) ==
    LET peak   == PeakOn(d, dyn)
        valley == ValleyOn(d, dyn)
    IN  /\ peaksDetected' = IF peak THEN peaksDetected + 1 ELSE peaksDetected
        /\ valleySincePeak' = IF peak THEN FALSE ELSE (valleySincePeak \/ valley)
        /\ oscillations' =
             IF /\ peak
                /\ peaksDetected >= 1
                /\ valleySincePeak
                /\ SpacingInside(t - d.lastPeakTimeRef)
             THEN oscillations + 1 ELSE oscillations
        /\ lastStepTime' = IF stepCount' > stepCount THEN t ELSE lastStepTime
        /\ peaksSinceStep' =
             IF stepCount' > stepCount THEN 0
             ELSE IF peak THEN peaksSinceStep + 1 ELSE peaksSinceStep

(* ------------------------------ actions ------------------------------- *)

\* The listener of StepScreen: processSample(x, y, z) at Date.now() = t.
StepSample(s, t) ==
    LET mag == MagnitudeOf[s]
        g   == GravityLPF(gravityMagRef, mag)
        dyn == Dynamic(mag, g)
        d   == detectStep(Detector, dyn, t)
    IN  /\ subscribed
        /\ now' = t
        /\ magRaw' = mag
        /\ gravityMagRef' = g
        /\ dynValue' = dyn
        /\ energyRef' = d.energyRef
        /\ prevDynRef' = d.prevDynRef
        /\ prevPrevDynRef' = d.prevPrevDynRef
        /\ lastPeakTimeRef' = d.lastPeakTimeRef
        /\ pendingPeakRef' = d.pendingPeakRef
        /\ lastWasValleyRef' = d.lastWasValleyRef
        /\ stepCount' = d.stepCount
        /\ History(Detector, dyn, t)

ProcessSample ==
    \E s \in Samples, dl \in Deltas :
        /\ now + dl <= MaxTime
        /\ StepSample(s, now + dl)
        /\ UNCHANGED <<fed, subscribed, rideVars, graphVars>>

\* The next sample of the end-to-end scenario, 50 ms after the previous one.
FeedScenario ==
    /\ fed < Len(ScenarioStream)
    /\ StepSample(Flat(ScenarioStream[fed + 1]), now + UpdateInterval)
    /\ fed' = fed + 1
    /\ UNCHANGED <<subscribed, rideVars, graphVars>>

\* An arbitrary finite reading, before the input is held constant (the
\* conditioner takes finite components; a NaN reading is delivered in Spec).
Warm ==
    \E s \in FiniteSamples :
        /\ now + UpdateInterval <= StartTime + WarmTicks * UpdateInterval
        /\ StepSample(s, now + UpdateInterval)
        /\ UNCHANGED <<fed, subscribed, rideVars, graphVars>>

\* A reading of the same magnitude as the previous one.
Hold ==
    \E s \in FiniteSamples :
        /\ MagnitudeOf[s] = magRaw
        /\ now + UpdateInterval <= StartTime + ConstTicks * UpdateInterval
        /\ StepSample(s, now + UpdateInterval)
        /\ UNCHANGED <<fed, subscribed, rideVars, graphVars>>

\* A reading of a walk.
Walk ==
    \E s \in WalkSamples, dl \in Deltas :
        /\ now + dl <= StartTime + WalkTicks * TickMs
        /\ StepSample(s, now + dl)
        /\ UNCHANGED <<fed, subscribed, rideVars, graphVars>>

\* A finite reading delivered in a run with focus changes.
FocusSample ==
    \E s \in FiniteSamples, dl \in Deltas :
        /\ now + dl <= StartTime + FocusTicks * TickMs
        /\ StepSample(s, now + dl)
        /\ UNCHANGED <<fed, subscribed, rideVars, graphVars>>

\* The screen loses focus: the cleanup of useFocusEffect, sub.remove().
Blur ==
    /\ subscribed
    /\ subscribed' = FALSE
    /\ UNCHANGED <<now, stepVars, histVars, fed, rideVars, graphVars>>

\* The screen regains focus: the effect of useFocusEffect,
\* setUpdateInterval(50) and addListener.
Focus ==
    /\ ~subscribed
    /\ subscribed' = TRUE
    /\ UNCHANGED <<now, stepVars, histVars, fed, rideVars, graphVars>>

InitStep ==
    /\ subscribed = TRUE
    /\ lastStepTime = 0
    /\ peaksSinceStep = 0
    /\ stepCount = 0
    /\ dynValue = 0
    /\ gravityMagRef = 0
    /\ prevDynRef = 0
    /\ prevPrevDynRef = 0
    /\ lastPeakTimeRef = 0
    /\ pendingPeakRef = FALSE
    /\ lastWasValleyRef = FALSE
    /\ energyRef = 0
    /\ magRaw = 0
    /\ peaksDetected = 0
    /\ valleySincePeak = FALSE
    /\ oscillations = 0

(* ---------------------- RideScreen: processSample --------------------- *)

\* stepSignalRef.current after the step-band low-pass filter.
StepBandLPF(sig, dynamic) == Blend(ALPHA_STEP, sig, dynamic)

\* const gatedSignal: dead-zone noise suppression.
GatedSignal(sig) == IF Lt(Abs(sig), DEAD_ZONE) THEN 0 ELSE sig

(* ----------------------- RideScreen: detectStep ----------------------- *)

\* Faulty variant: the minimum interval itself is accepted.
RisingEdgeInclusive(above, value, last, t) ==
    /\ ~above
    /\ Gt(value, STEP_THRESHOLD_HIGH)
    /\ t - last >= MIN_STEP_INTERVAL

\* Rising edge: count a step.
RisingEdge(above, value, last, t) ==
    /\ ~above
    /\ Gt(value, STEP_THRESHOLD_HIGH)
    /\ t - last > MIN_STEP_INTERVAL

\* Falling edge: re-arm the detector; above is the flag after the rising
\* edge was handled.
FallingEdge(above, value) == above /\ Lt(value, STEP_THRESHOLD_LOW)

\* The listener of RideScreen: processSample(x, y, z) at Date.now() = t.
RideSample(s, t) ==
    LET mag     == MagnitudeOf[s]
        g       == GravityLPF(gravityRef, mag)
        dynamic == Dynamic(mag, g)
        sig     == StepBandLPF(stepSignalRef, dynamic)
        value   == GatedSignal(sig)
        rising  == RisingEdge(aboveThresholdRef, value, lastStepTimeRef, t)
        above   == aboveThresholdRef \/ rising
        falling == FallingEdge(above, value)
    IN  /\ now' = t
        /\ gravityRef' = g
        /\ stepSignalRef' = sig
        /\ gravity' = g
        /\ stepSignal' = value
        /\ rideStepCount' = IF rising THEN rideStepCount + 1 ELSE rideStepCount
        /\ lastStepTimeRef' = IF rising THEN t ELSE lastStepTimeRef
        /\ aboveThresholdRef' = IF falling THEN FALSE ELSE above
        /\ lowSinceStep' =
             IF rising THEN FALSE
             ELSE lowSinceStep \/ (Lt(value, STEP_THRESHOLD_HIGH)
                                    /\ Lt(value, STEP_THRESHOLD_LOW))

RideProcessSample ==
    \E s \in RideSamples, dl \in RideDeltas :
        /\ now + dl <= RideMaxTime
        /\ RideSample(s, now + dl)
        /\ UNCHANGED <<stepVars, histVars, fed, subscribed, graphVars>>

InitRide ==
    /\ rideStepCount = 0
    /\ gravity = 0
    /\ stepSignal = 0
    /\ gravityRef = 0
    /\ stepSignalRef = 0
    /\ lastStepTimeRef = 0
    /\ aboveThresholdRef = FALSE
    /\ lowSinceStep = FALSE

(* --------------------- GraphsScreen: processSample -------------------- *)

\* One axis of gravityAxisRef.current after the axis low-pass filter.
AxisLPF(a, v) == Blend(ALPHA, a, v)

\* Faulty variant: the first BUFFER_SIZE entries are kept.
AppendBoundedHead(prev, sample) ==
    LET next == Append(prev, sample)
    IN  IF Len(next) > BUFFER_SIZE THEN SubSeq(next, 1, BUFFER_SIZE) ELSE next

\* The updater of setSamples: append, then keep the last BUFFER_SIZE.
AppendBounded(prev, sample) ==
    LET next == Append(prev, sample)
    IN  IF Len(next) > BUFFER_SIZE
        THEN SubSeq(next, Len(next) - BUFFER_SIZE + 1, Len(next))
        ELSE next

\* The listener of GraphsScreen: processSample(x, y, z).
GraphSample(s) ==
    LET mag    == MagnitudeOf[s]
        g      == Blend(ALPHA, graphGravityMagRef, mag)
        magDyn == FSub(mag, g)
        fx     == AxisLPF(gravityAxisRef.x, s[1])
        fy     == AxisLPF(gravityAxisRef.y, s[2])
        fz     == AxisLPF(gravityAxisRef.z, s[3])
        sample == IF mode = "raw"
                  THEN [x |-> s[1], y |-> s[2], z |-> s[3], magDyn |-> magDyn]
                  ELSE [x |-> fx, y |-> fy, z |-> fz, magDyn |-> magDyn]
    IN  /\ graphGravityMagRef' = g
        /\ gravityAxisRef' = [x |-> fx, y |-> fy, z |-> fz]
        /\ samples' = AppendBounded(samples, sample)
        /\ arrived' = Append(arrived, sample)
        /\ UNCHANGED mode

\* Arbitrary readings at first, then the device rests.
GraphProcessSample ==
    \E s \in GraphSamples :
        /\ Len(arrived) < GraphTicks
        /\ Len(arrived) >= GraphWarm => s = RestSample
        /\ GraphSample(s)
        /\ UNCHANGED <<now, stepVars, histVars, fed, subscribed, rideVars>>

\* The picker: setMode(v).
SetMode ==
    \E v \in {"raw", "filtered"} :
        /\ v # mode
        /\ Len(arrived) < GraphWarm
        /\ mode' = v
        /\ UNCHANGED <<samples, gravityAxisRef, graphGravityMagRef, arrived>>
        /\ UNCHANGED <<now, stepVars, histVars, fed, subscribed, rideVars>>

InitGraph ==
    /\ mode = "raw"
    /\ samples = << >>
    /\ gravityAxisRef = [x |-> 0, y |-> 0, z |-> 0]
    /\ graphGravityMagRef = 0
    /\ arrived = << >>

(* --------------------------- specifications --------------------------- *)

Init ==
    /\ now = StartTime
    /\ fed = 0
    /\ InitStep
    /\ InitRide
    /\ InitGraph

\* StepScreen under arbitrary readings and callback times.
Next == ProcessSample

Spec == Init /\ [][Next]_vars

\* StepScreen under the end-to-end scenario.
InitScenario ==
    /\ now \in ScenarioStarts
    /\ fed = 0
    /\ InitStep
    /\ InitRide
    /\ InitGraph

NextScenario == FeedScenario

SpecScenario == InitScenario /\ [][NextScenario]_vars

\* StepScreen under an input that is eventually held constant: the sensor
\* keeps delivering readings, so Hold is taken as long as it is enabled.
NextConst == Warm \/ Hold

SpecConst == Init /\ [][NextConst]_vars /\ WF_vars(Hold)

\* StepScreen under the readings of a walk.
NextWalk == Walk

SpecWalk == Init /\ [][NextWalk]_vars

\* StepScreen while the screen loses and regains focus.
NextFocus == FocusSample \/ Blur \/ Focus

SpecFocus == Init /\ [][NextFocus]_vars

\* GraphsScreen.
NextGraph == GraphProcessSample \/ SetMode

SpecGraph == Init /\ [][NextGraph]_vars

\* RideScreen under arbitrary readings and callback times.
NextRide == RideProcessSample

SpecRide == Init /\ [][NextRide]_vars


(* ====================================================================== *)
(* Properties of the adaptive detector (StepScreen), under Spec           *)
(* ====================================================================== *)

\* A processSample call happened in this step.
Sampled == now' # now

\* C1: every step confirmation is preceded by a pending peak, then a valley
\* detected after that peak, then the confirming peak: no step is confirmed
\* between two peaks with no valley detected between them.
C1_ValleyBetweenPeaks ==
    [][stepCount' > stepCount => (pendingPeakRef /\ valleySincePeak)]_vars

\* C2: a sample whose |dyn| is below MIN_ACTIVITY_LEVEL (0.03) emits no step
\* and leaves energy, prev, prevPrev, the pending-peak flag, the valley flag,
\* the last-peak time and the step count unchanged.
C2_GatedSampleIsNoOp ==
    [][(Sampled /\ dynValue' # NaN /\ Abs(dynValue') < 30)
         => UNCHANGED <<energyRef, prevDynRef, prevPrevDynRef, pendingPeakRef,
                        lastWasValleyRef, lastPeakTimeRef, stepCount>>]_vars

\* A gated sample was delivered after the detector had seen activity.
C2_Witness ==
    /\ now > StartTime
    /\ dynValue # NaN /\ Abs(dynValue) < 30
    /\ energyRef > 0

\* C3: a step is confirmed on a peak only if the time dt since the previously
\* detected peak satisfies 500 ms < dt < 1000 ms.
C3_StepOnlyInsideWindow ==
    [][stepCount' > stepCount
         => (now' - lastPeakTimeRef > 500 /\ now' - lastPeakTimeRef < 1000)]_vars

\* A step has just been confirmed on this sample.
C3_Witness ==
    /\ stepCount >= 1
    /\ lastPeakTimeRef = now
    /\ ~pendingPeakRef

\* C4: from the initial state, one peak, one valley and a second peak whose
\* spacing is strictly inside the window yield exactly one step, and the step
\* count never rises by more than 1 on a sample.
C4_SingleWaveformOneStep ==
    [][/\ stepCount' <= stepCount + 1
       /\ (peaksDetected' = 2 /\ oscillations' = 1) => stepCount' = 1]_vars

\* The second peak of a clean peak-valley-peak waveform has been detected.
C4_Witness ==
    /\ peaksDetected = 2
    /\ oscillations = 1
    /\ stepCount = 1

\* C5: when every peak after the first completes a peak-valley-peak with the
\* spacing inside the window, there is one step for every peak after the
\* first.
C5_OneStepPerOscillation ==
    (peaksDetected >= 1 /\ oscillations = peaksDetected - 1)
        => stepCount = peaksDetected - 1

\* C6: a NaN sample is dropped: it leaves the gravity estimate, the energy
\* estimate and the two-sample history unchanged.
C6_NaNSampleDropped ==
    [][(Sampled /\ magRaw' = NaN)
         => UNCHANGED <<gravityMagRef, energyRef, prevDynRef,
                        prevPrevDynRef>>]_vars

\* C10: when a peak is detected and the confirmation condition does not hold
\* (no pending peak, or no valley seen, or dt outside the window), no step is
\* emitted, the pending-peak flag becomes true and the last-peak time becomes
\* the current time; the first peak of a stream never emits a step.
C10_RejectedPeakBecomesPending ==
    [][(Sampled /\ PeakOn(Detector, dynValue'))
         => /\ (peaksDetected = 0) => stepCount' = stepCount
            /\ (\/ ~pendingPeakRef
                \/ ~lastWasValleyRef
                \/ now' - lastPeakTimeRef <= 500
                \/ now' - lastPeakTimeRef >= 1000)
                 => /\ stepCount' = stepCount
                    /\ pendingPeakRef'
                    /\ lastPeakTimeRef' = now']_vars

\* A peak after the first one was rejected although a valley had been seen:
\* it is the new pending candidate.
C10_Witness ==
    /\ peaksDetected >= 2
    /\ stepCount = 0
    /\ pendingPeakRef
    /\ lastWasValleyRef
    /\ lastPeakTimeRef = now


(* ====================================================================== *)
(* The end-to-end scenario, under SpecScenario                            *)
(* ====================================================================== *)

\* C7 as stated: the scenario yields exactly 1 step.
C7_ScenarioYieldsOneStep ==
    fed = Len(ScenarioStream) => stepCount = 1

\* C7 as amended: the scenario yields exactly 0 steps; the only peak detected
\* is the start-up transient, on the second sample, and it stays pending.
C7_ScenarioYieldsNoStep ==
    /\ stepCount = 0
    /\ fed = Len(ScenarioStream)
         => /\ peaksDetected = 1
            /\ pendingPeakRef
            /\ lastPeakTimeRef = now - (fed - 2) * UpdateInterval

\* The whole stream has been delivered.
C7_Witness ==
    /\ fed = Len(ScenarioStream)
    /\ magRaw = 9400
    /\ stepCount = 0

(* ====================================================================== *)
(* The conditioner under constant input, under SpecConst                  *)
(* ====================================================================== *)

\* Half a fixed-point step of the gravity filter's correction: the distance
\* from the input at which the rounded filter stops moving.
ConvergeEps == Percent \div (2 * (Percent - ALPHA_GRAVITY))

\* C9: dyn_t = 0.9 * (g - gravity_{t-1}) on every sample (up to rounding);
\* under a constant input g the gravity estimate never overshoots g, |dyn|
\* never grows, and dyn converges to 0 (to within ConvergeEps).
C9_ConstantInputConverges ==
    /\ [][Sampled =>
            /\ 100 * dynValue' - 90 * (magRaw' - gravityMagRef) <= 50
            /\ 90 * (magRaw' - gravityMagRef) - 100 * dynValue' <= 50
            /\ gravityMagRef <= magRaw' => gravityMagRef' <= magRaw'
            /\ gravityMagRef >= magRaw' => gravityMagRef' >= magRaw'
            /\ (magRaw' = magRaw /\ now > StartTime)
                 => Abs(dynValue') <= Abs(dynValue)]_vars
    /\ <>[](Abs(dynValue) <= ConvergeEps)

\* The input was held at 3.0 until the dynamic output died out.
C9_Witness ==
    /\ magRaw = 3000
    /\ gravityMagRef >= 3000 - ConvergeEps
    /\ Abs(dynValue) <= ConvergeEps

(* ====================================================================== *)
(* Properties of the hysteresis detector (RideScreen), under SpecRide     *)
(* ====================================================================== *)

\* C8: after a step is counted the detector re-arms only after the gated
\* signal has fallen below the lower of the two thresholds: a second step is
\* counted only if the signal was below it since the previous step.
C8_RearmBelowLowerThreshold ==
    [][(rideStepCount' > rideStepCount /\ rideStepCount >= 1)
         => lowSinceStep]_vars


(* ====================================================================== *)
(* More properties of the adaptive detector (StepScreen), under Spec      *)
(* ====================================================================== *)

\* C11 as stated: after every detectStep call, prev is the most recent input
\* of the detector and prevPrev the input before it.
C11_HistoryIsLastTwoInputs ==
    [][Sampled => (prevDynRef' = dynValue' /\ prevPrevDynRef' = dynValue)]_vars

\* C11 as amended: the history holds the last two inputs that passed the
\* activity gate, in order: an input that passes the gate (|dyn| >= 0.03, or
\* NaN) becomes prev and the old prev becomes prevPrev; an input below the
\* gate is not recorded.
C11_HistoryIsLastTwoPassed ==
    [][Sampled =>
         IF dynValue' # NaN /\ Abs(dynValue') < 30
         THEN prevDynRef' = prevDynRef /\ prevPrevDynRef' = prevPrevDynRef
         ELSE prevDynRef' = dynValue' /\ prevPrevDynRef' = prevDynRef]_vars

\* A gated input was delivered after two inputs that passed the gate: the
\* history still holds these two.
C11_Witness ==
    /\ now > StartTime
    /\ dynValue # NaN /\ Abs(dynValue) < 30
    /\ prevDynRef # dynValue
    /\ prevDynRef # 0
    /\ prevPrevDynRef # 0

\* C12: with finite inputs the energy estimate is >= 0, and the threshold is
\* never below the floor 0.2: no sample with prev <= 0.2 is classified as a
\* peak and no sample with prev >= -0.1 is classified as a valley.
C12_ThresholdAtLeastFloor ==
    [][Sampled =>
         /\ energyRef' # NaN => energyRef' >= 0
         /\ (lastPeakTimeRef' = now' \/ peaksDetected' > peaksDetected)
              => (prevDynRef # NaN /\ prevDynRef > 200)
         /\ ((~lastWasValleyRef /\ lastWasValleyRef')
               \/ (~valleySincePeak /\ valleySincePeak'))
              => (prevDynRef # NaN /\ prevDynRef < -100)]_vars

\* A peak was detected while the adaptive threshold was above the floor.
C12_Witness ==
    /\ lastPeakTimeRef = now
    /\ peaksDetected >= 1
    /\ energyRef > 0
    /\ FMul(150, energyRef) > 200

\* C13: right after a sample that confirms a step, the pending-peak flag and
\* the valley flag are false and the last-peak time is the confirming time; a
\* step is confirmed only from a pending peak, so the next peak after a
\* confirmation only becomes the pending candidate.
C13_IdleAfterConfirmation ==
    [][stepCount' > stepCount
         => /\ pendingPeakRef
            /\ ~pendingPeakRef'
            /\ ~lastWasValleyRef'
            /\ lastPeakTimeRef' = now']_vars

\* The peak that follows a confirmed step has been detected: it is pending
\* and no second step was counted.
C13_Witness ==
    /\ stepCount = 1
    /\ peaksDetected = 3
    /\ pendingPeakRef
    /\ lastPeakTimeRef = now


(* ====================================================================== *)
(* The lifecycle of StepScreen, under SpecFocus                           *)
(* ====================================================================== *)

\* C14: when the listener is registered again after it was removed, the
\* gravity estimate, the energy estimate, the two-sample history, the two
\* flags and the last-peak time are back at their initial values.
C14_StateResetOnRefocus ==
    [][(~subscribed /\ subscribed')
         => /\ gravityMagRef' = 0
            /\ energyRef' = 0
            /\ prevDynRef' = 0
            /\ prevPrevDynRef' = 0
            /\ ~pendingPeakRef'
            /\ ~lastWasValleyRef'
            /\ lastPeakTimeRef' = 0]_vars

(* ====================================================================== *)
(* Consecutive steps of the adaptive detector, under SpecWalk             *)
(* ====================================================================== *)

\* C15: two consecutive confirmed steps are more than MIN_STEP_PERIOD
\* (500 ms) apart and at least one non-confirming peak is detected between
\* them.
C15_StepsApart ==
    [][(stepCount' > stepCount /\ stepCount >= 1)
         => /\ now' - lastStepTime > 500
            /\ peaksSinceStep >= 1]_vars

\* A second step has just been confirmed.
C15_Witness ==
    /\ stepCount = 2
    /\ lastStepTime = now

(* ====================================================================== *)
(* More properties of the hysteresis detector, under SpecRide             *)
(* ====================================================================== *)

\* C16: a step is counted only on a sample whose gated signal exceeds
\* STEP_THRESHOLD_HIGH (0.06) while the above-threshold flag is false and
\* more than MIN_STEP_INTERVAL (350 ms) after the previous counted step (whose
\* time lastStepTimeRef holds); the count rises by at most 1 per sample.
C16_CountedStepsApart ==
    [][IF rideStepCount' # rideStepCount
       THEN /\ rideStepCount' = rideStepCount + 1
            /\ ~aboveThresholdRef
            /\ stepSignal' > 60
            /\ now' - lastStepTimeRef > 350
            /\ lastStepTimeRef' = now'
       ELSE lastStepTimeRef' = lastStepTimeRef]_vars

\* A second step has just been counted.
C16_Witness ==
    /\ rideStepCount >= 2
    /\ lastStepTimeRef = now

(* ====================================================================== *)
(* The sample buffer of GraphsScreen, under SpecGraph                     *)
(* ====================================================================== *)

\* The last n entries of the sequence q (all of q if it is shorter).
LastN(q, n) ==
    IF Len(q) <= n THEN q ELSE SubSeq(q, Len(q) - n + 1, Len(q))

\* C17: the buffer never holds more than BUFFER_SIZE (120) entries and holds
\* the most recent min(n, 120) samples in arrival order.
C17_BufferIsRecentSamples ==
    /\ Len(samples) <= 120
    /\ samples = LastN(arrived, 120)

\* More than 120 samples arrived: the oldest ones were dropped.
C17_Witness ==
    /\ Len(arrived) > 120
    /\ Len(samples) = 120
    /\ samples[1] # arrived[1]
    /\ samples[120] = arrived[Len(arrived)]

=============================================================================
